---- MODULE Spec2Model ----
(***************************************************************************)
(* DealRelay (src/app.py): a Flask service that records "track this URL    *)
(* for this email" requests in two tables (Product, Subscription) and an   *)
(* hourly sweep that re-fetches every product page, emails the subscribers *)
(* of a product whose price dropped and stores the lower price.            *)
(*                                                                         *)
(* Prices are Python floats in the source; the model counts them in        *)
(* tenths (12.5 EUR is 125) so that the comparison 0 < new < old and the   *)
(* 0.0 sentinel keep their meaning on integers.                            *)
(***************************************************************************)
EXTENDS Integers, Sequences, FiniteSets, TLC

\* ---------------------------------------------------------------- bounds
NumUrls == 2
NumEmails == 2
MaxReq == 2

Urls == 1..NumUrls
Emails == 1..NumEmails

\* the threads of the server, one for each request
Threads == 1..MaxReq

\* ---------------------------------------------------- helpers on values
None == <<>>
Some(x) == <<x>>

Range(s) == {s[i] : i \in 1..Len(s)}

RECURSIVE MaxOf(_)
MaxOf(S) ==
    IF S = {} THEN 0
    ELSE LET x == CHOOSE y \in S : TRUE
             m == MaxOf(S \ {x})
         IN IF x > m THEN x ELSE m

\* rows in rowid order, as SQLite returns an unordered SELECT
RECURSIVE OrderById(_)
OrderById(rows) ==
    IF rows = {} THEN <<>>
    ELSE LET r == CHOOSE x \in rows : \A y \in rows : x.id <= y.id
         IN <<r>> \o OrderById(rows \ {r})

\* ------------------------------------------------- page and extraction
Titles == {"T1"}
NA == "N/A"

\* text of the a-price-whole element, as get_text(strip=True) returns it
WholeTexts == { <<"1", ".">>, <<"2", ",">>, <<"-", "1">>, <<"x">> }
\* text of the a-price-fraction element
FracTexts == { <<"0">>, <<"x">> }

Pages == [ok : BOOLEAN,
          title : {None} \cup {Some(t) : t \in Titles},
          whole : {None} \cup {Some(w) : w \in WholeTexts},
          frac : {None} \cup {Some(f) : f \in FracTexts}]

IsDigit(c) == c \in {"0", "1", "2", "3", "5"}

DigitVal(c) ==
    CASE c = "0" -> 0 [] c = "1" -> 1 [] c = "2" -> 2 [] c = "3" -> 3
      [] c = "5" -> 5 [] OTHER -> 0

\* str.replace(old, ''): drop every occurrence of one character
RECURSIVE Replace(_, _)
Replace(s, old) ==
    IF s = <<>> THEN <<>>
    ELSE IF Head(s) = old THEN Replace(Tail(s), old)
    ELSE <<Head(s)>> \o Replace(Tail(s), old)

RECURSIVE DigitsVal(_)
DigitsVal(s) ==
    IF s = <<>> THEN 0 ELSE DigitsVal(SubSeq(s, 1, Len(s) - 1)) * 10 + DigitVal(s[Len(s)])

AllDigits(s) == \A i \in 1..Len(s) : IsDigit(s[i])

\* float(f"{whole}.{frac}") on the characters of the model: an optional sign,
\* digits, the point, digits, at least one digit in all; anything else raises
\* ValueError.  The value is in tenths (the fraction texts have one character).
FloatOk(whole, frac) ==
    LET body == IF whole # <<>> /\ Head(whole) = "-" THEN Tail(whole) ELSE whole
    IN AllDigits(body) /\ AllDigits(frac) /\ Len(body) + Len(frac) > 0

FloatVal(whole, frac) ==
    LET neg == whole # <<>> /\ Head(whole) = "-"
        body == IF neg THEN Tail(whole) ELSE whole
        mag == DigitsVal(body) * 10 + (IF frac = <<>> THEN 0 ELSE DigitVal(frac[1]))
    IN IF neg THEN 0 - mag ELSE mag

\* lines 89-112: (title, price) of a fetched page, with the sentinels
get_product_details(page) ==
    IF ~page.ok THEN <<NA, 0>>
    ELSE LET product_name == IF page.title = None THEN NA ELSE page.title[1]
             full_price ==
                 IF page.whole = None \/ page.frac = None THEN 0
                 ELSE LET price_whole_str == Replace(Replace(page.whole[1], "."), ",")
                          price_fraction_str == page.frac[1]
                      IN IF FloatOk(price_whole_str, price_fraction_str)
                         THEN FloatVal(price_whole_str, price_fraction_str)
                         ELSE 0
         IN <<product_name, full_price>>

\* what a fetch of a tracked page can return
Details == {get_product_details(pg) : pg \in Pages}

\* ------------------------------------------------------------- state
VARIABLES
    products,       \* table Product: rows [id, url, title, price]
    subscriptions,  \* table Subscription: rows [id, user_email, product_id]
    req,            \* the POST /track request each thread of the server serves
    named,          \* how many urls and emails the requests have carried so far
    nreq,           \* how many requests have been answered
    last,           \* the request answered last: [url, email, status, details]
    sweep,          \* the scheduler thread: position inside check_prices
    outbox,         \* the calls of send_notification_email, with their outcome
    notified,       \* the emails delivered so far: <<receiver, product id, new price>>
    env             \* os.environ: which mail credentials are set

vars == <<products, subscriptions, named, req, nreq, last, sweep, outbox, notified,
          env>>

Idle == [pc |-> "idle", url |-> 0, email |-> 0, pid |-> 0,
         newProduct |-> None, newSub |-> None, details |-> None]

\* no request has been answered yet
NoAnswer == [url |-> 0, email |-> 0, status |-> 0, details |-> None]

Answer(url, email, status, details) ==
    [url |-> url, email |-> email, status |-> status, details |-> details]

NoSweep == [pc |-> "idle", products |-> <<>>, idx |-> 0, seen |-> <<>>,
            subs |-> <<>>, k |-> 0, late |-> FALSE]

Init ==
    /\ products = {}
    /\ subscriptions = {}
    /\ req = [t \in Threads |-> Idle]
    /\ named = [urls |-> 0, emails |-> 0]
    /\ nreq = 0
    /\ last = NoAnswer
    /\ sweep = NoSweep
    /\ outbox = <<>>
    /\ notified = {}
    /\ env \in [SENDER_EMAIL : BOOLEAN, SENDER_PASSWORD : BOOLEAN]

\* ------------------------------------------------------ the two tables
\* lines 28-33 and 36-40: the rows a session sees are the committed rows
\* and the rows it has flushed or added itself
ProductRow(id, url, title, price) ==
    [id |-> id, url |-> url, title |-> title, price |-> price]

SubscriptionRow(id, user_email, product_id) ==
    [id |-> id, user_email |-> user_email, product_id |-> product_id]

NextId(rows) == MaxOf({r.id : r \in rows}) + 1

ProductByUrl_NeverFinds(rows, url) == {}

\* line 170
ProductByUrl(rows, url) == {p \in rows : p.url = url}

ProductById(id) == CHOOSE p \in products : p.id = id

SubsOf(rows, user_email, product_id) ==
    {s \in rows : s.user_email = user_email /\ s.product_id = product_id}

\* line 30 and line 40: the two unique constraints
UniqueOk(prods, subs) ==
    /\ \A p, q \in prods : p.url = q.url => p.id = q.id
    /\ \A s, t \in subs :
          (s.user_email = t.user_email /\ s.product_id = t.product_id) => s.id = t.id

\* ------------------------------------------------------- POST /track
\* the threads that are serving a request
Serving == {t \in Threads : req[t].pc # "idle"}

\* a request arrives and is given to thread t, the first free one; the
\* server serves at most `workers` requests at a time
Accepts(t, workers) ==
    /\ nreq + Cardinality(Serving) < MaxReq
    /\ Cardinality(Serving) < workers
    /\ req[t].pc = "idle"
    /\ \A u \in Threads : u < t => req[u].pc # "idle"

\* line 23, SQLite: one writer at a time.  The session that has flushed an
\* INSERT holds the write lock until its commit or rollback; the write of
\* another session waits for it (the wait is shorter than the busy timeout).
\* t is the thread that writes, 0 for the scheduler thread
WriteLockFree(t) == \A u \in Threads \ {t} : req[u].newProduct = None

Respond(t, status) ==
    /\ last' = Answer(req[t].url, req[t].email, status, req[t].details)
    /\ nreq' = nreq + 1
    /\ req' = [req EXCEPT ![t] = Idle]

\* lines 163-165: a body without product_url or user_email
TrackBadRequest(workers) ==
    /\ nreq + Cardinality(Serving) < MaxReq
    /\ Cardinality(Serving) < workers
    /\ last' = Answer(0, 0, 400, None)
    /\ nreq' = nreq + 1
    /\ UNCHANGED <<products, subscriptions, named, req, sweep, outbox, env, notified>>

\* the values of product_url and user_email are opaque to the program (it
\* only compares them for equality), so they are numbered in the order in
\* which requests first carry them: a request carries a value seen before
\* or the next new one
Known(n, all) == {v \in all : v <= n + 1}

Max(a, b) == IF a > b THEN a ELSE b

\* lines 167-172: look the Product up by its url, among the committed rows
TrackBegin(t, workers) ==
    /\ Accepts(t, workers)
    /\ \E product_url \in Known(named.urls, Urls),
          user_email \in Known(named.emails, Emails) :
        /\ named' = [urls |-> Max(named.urls, product_url),
                     emails |-> Max(named.emails, user_email)]
        /\ LET found == ProductByUrl(products, product_url)
               r == [Idle EXCEPT !.url = product_url, !.email = user_email]
           IN req' = [req EXCEPT ![t] =
                        IF found # {}
                        THEN [r EXCEPT !.pc = "sub",
                                       !.pid = (CHOOSE p \in found : TRUE).id]
                        ELSE [r EXCEPT !.pc = "fetch"]]
    /\ UNCHANGED <<products, subscriptions, nreq, last, sweep, outbox, env, notified>>

IsSentinel_Both(title, price) == title = NA /\ price = 0

\* line 176
IsSentinel(title, price) == title = NA \/ price = 0

\* lines 173-181: an unseen url is fetched; a sentinel is answered 400,
\* anything else is added as a Product and flushed.  The flush is outside
\* the try of line 191: an IntegrityError there leaves track_product, the
\* request is answered 500 and the session is discarded with the request
TrackFetch(t) ==
    /\ req[t].pc = "fetch"
    /\ \E d \in Details :
          IF IsSentinel(d[1], d[2])
          THEN /\ last' = Answer(req[t].url, req[t].email, 400, Some(d))
               /\ nreq' = nreq + 1
               /\ req' = [req EXCEPT ![t] = Idle]
          ELSE /\ WriteLockFree(t)
               /\ LET product == ProductRow(NextId(products), req[t].url, d[1], d[2])
                  IN IF UniqueOk(products \cup {product}, subscriptions)
                     THEN /\ req' = [req EXCEPT ![t].pc = "sub",
                                                ![t].pid = product.id,
                                                ![t].newProduct = Some(product),
                                                ![t].details = Some(d)]
                          /\ UNCHANGED <<nreq, last>>
                     ELSE /\ last' = Answer(req[t].url, req[t].email, 500, Some(d))
                          /\ nreq' = nreq + 1
                          /\ req' = [req EXCEPT ![t] = Idle]
    /\ UNCHANGED <<products, subscriptions, named, sweep, outbox, env, notified>>

SubscriptionLookup_NeverFinds(user_email, product_id) == {}

\* line 183: the query sees the committed rows (the request has added none)
SubscriptionLookup(user_email, product_id) ==
    SubsOf(subscriptions, user_email, product_id)

\* lines 183-189: already tracking, or add the Subscription (it gets its id
\* when the commit inserts it)
TrackSub(t) ==
    /\ req[t].pc = "sub"
    /\ IF SubscriptionLookup(req[t].email, req[t].pid) # {}
       THEN Respond(t, 200)
       ELSE /\ req' = [req EXCEPT ![t].pc = "commit",
                          ![t].newSub = Some(SubscriptionRow(0, req[t].email,
                                                             req[t].pid))]
            /\ UNCHANGED <<nreq, last>>
    /\ UNCHANGED <<products, subscriptions, named, sweep, outbox, env, notified>>

Rollback_KeepsFlushed(committed, added) == committed \cup added

\* line 194: session.rollback() drops what the request flushed and added;
\* the table keeps its committed rows
Rollback(committed, added) == committed

\* the rows the commit of a request writes: the flushed Product and the
\* added Subscription, inserted with the next id
Pending(r) ==
    [products |-> Range(r.newProduct),
     subscriptions |-> {[sb EXCEPT !.id = NextId(subscriptions)] :
                           sb \in Range(r.newSub)}]

\* lines 191-198: commit; an IntegrityError is rolled back and answered 500
TrackCommit(t) ==
    /\ req[t].pc = "commit"
    /\ WriteLockFree(t)
    /\ LET prods == products \cup Pending(req[t]).products
           subs == subscriptions \cup Pending(req[t]).subscriptions
       IN IF UniqueOk(prods, subs)
          THEN /\ products' = prods
               /\ subscriptions' = subs
               /\ Respond(t, 201)
          ELSE /\ products' = Rollback(products, Pending(req[t]).products)
               /\ subscriptions' = Rollback(subscriptions,
                                            Pending(req[t]).subscriptions)
               /\ Respond(t, 500)
    /\ UNCHANGED <<named, sweep, outbox, env, notified>>

\* lines 193-196: the commit raises for a reason of the store (I/O, lock)
TrackCommitFails(t) ==
    /\ req[t].pc = "commit"
    /\ products' = Rollback(products, Pending(req[t]).products)
    /\ subscriptions' = Rollback(subscriptions, Pending(req[t]).subscriptions)
    /\ Respond(t, 500)
    /\ UNCHANGED <<named, sweep, outbox, env, notified>>

\* ------------------------------------------------------ the Notifier
send_notification_email_NoCatch(transport_ok) ==
    IF ~(env.SENDER_EMAIL /\ env.SENDER_PASSWORD) THEN "skipped"
    ELSE IF transport_ok THEN "sent"
    ELSE "raised"

send_notification_email_NotAny(transport_ok) ==
    IF ~(env.SENDER_EMAIL \/ env.SENDER_PASSWORD) THEN "skipped"
    ELSE IF transport_ok THEN "sent"
    ELSE "failed"

\* lines 48-86: nothing is sent without both credentials; a transport error
\* is caught.  The result names what happened; nothing is raised.
send_notification_email(transport_ok) ==
    IF ~(env.SENDER_EMAIL /\ env.SENDER_PASSWORD) THEN "skipped"
    ELSE IF transport_ok THEN "sent"
    ELSE "failed"

Mail_PriceAlreadyStored(receiver_email, product, new_price, outcome) ==
    [to |-> receiver_email, pid |-> product.id,
     old |-> new_price, new |-> new_price, outcome |-> outcome]

\* one entry of the outbox: the arguments of the call (the body quotes
\* product.price as the old price, lines 65-68) and its outcome
Mail(receiver_email, product, new_price, outcome) ==
    [to |-> receiver_email, pid |-> product.id,
     old |-> product.price, new |-> new_price, outcome |-> outcome]

\* ------------------------------------------------------- the Sweep
\* line 131: product.subscriptions, loaded when the drop is handled
SubscribersOf(product_id) ==
    LET rows == OrderById({s \in subscriptions : s.product_id = product_id})
    IN [i \in 1..Len(rows) |-> rows[i].user_email]

IsDrop_Inverted(new_price, price) == 0 < new_price /\ new_price > price

IsDrop_NoZeroCheck(new_price, price) == new_price < price

IsDrop_OrEqual(new_price, price) == 0 < new_price /\ new_price <= price

IsDrop_Changed(new_price, price) == 0 < new_price /\ new_price # price

\* line 127
IsDrop(new_price, price) == 0 < new_price /\ new_price < price

\* the product of the current turn of the loop, and the price just observed
Current(sw) == sw.products[sw.idx]
NewPrice(sw) == sw.seen[sw.idx]

NextProduct_StopsOnFailure(sw) ==
    IF sw.idx < Len(sw.products) /\ NewPrice(sw) # 0
    THEN [sw EXCEPT !.pc = "fetch", !.idx = sw.idx + 1, !.subs = <<>>, !.k = 0]
    ELSE [sw EXCEPT !.pc = "idle", !.idx = 0, !.subs = <<>>, !.k = 0]

\* the for loop of line 123 moves to the next product, or the sweep returns
NextProduct(sw) ==
    IF sw.idx < Len(sw.products)
    THEN [sw EXCEPT !.pc = "fetch", !.idx = sw.idx + 1, !.subs = <<>>, !.k = 0]
    ELSE [sw EXCEPT !.pc = "idle", !.idx = 0, !.subs = <<>>, !.k = 0]

SchedulerWaits_Always(sw) == TRUE

\* lines 151-153: run_pending() is called from the loop of the scheduler
\* thread and runs job() in that thread; the loop is back at run_pending()
\* only when job() has returned
SchedulerWaits(sw) == sw.pc = "idle"

\* lines 116-121: the hourly tick runs job(); the products are read once
SweepStart ==
    /\ SchedulerWaits(sweep)
    /\ LET all == OrderById(products)
       IN sweep' = [NoSweep EXCEPT
                       !.products = [i \in 1..Len(all) |-> all[i].id],
                       !.pc = IF all = <<>> THEN "idle" ELSE "fetch",
                       !.idx = IF all = <<>> THEN 0 ELSE 1]
    /\ outbox' = <<>>
    /\ UNCHANGED <<products, subscriptions, named, req, nreq, last, env, notified>>

\* lines 124-125: fetch the page of the product again
SweepFetch ==
    /\ sweep.pc = "fetch"
    /\ \E d \in Details :
          sweep' = [sweep EXCEPT !.pc = "compare", !.seen = Append(@, d[2])]
    /\ UNCHANGED <<products, subscriptions, named, req, nreq, last, outbox, env, notified>>

\* lines 127-131 and 137-138: a drop loads the subscribers, anything else
\* moves on
SweepCompare ==
    /\ sweep.pc = "compare"
    /\ LET product == ProductById(Current(sweep))
       IN IF IsDrop(NewPrice(sweep), product.price)
          THEN LET subs == SubscribersOf(product.id)
               IN sweep' = [sweep EXCEPT !.subs = subs, !.k = 1,
                               !.pc = IF subs = <<>> THEN "commit" ELSE "notify"]
          ELSE sweep' = NextProduct(sweep)
    /\ UNCHANGED <<products, subscriptions, named, req, nreq, last, outbox, env, notified>>

\* lines 131-132: one turn of the loop over the subscribers; an exception
\* that left the Notifier would leave check_prices, job and run_scheduler
SweepNotify ==
    /\ sweep.pc = "notify"
    /\ \E transport_ok \in BOOLEAN :
          LET product == ProductById(Current(sweep))
              outcome == send_notification_email(transport_ok)
          IN /\ outbox' = Append(outbox, Mail(sweep.subs[sweep.k], product,
                                              NewPrice(sweep), outcome))
             /\ notified' = IF outcome = "sent"
                            THEN notified \cup {<<sweep.subs[sweep.k], product.id,
                                                  NewPrice(sweep)>>}
                            ELSE notified
             /\ sweep' = IF outcome = "raised"
                         THEN [sweep EXCEPT !.pc = "dead"]
                         ELSE [sweep EXCEPT !.k = sweep.k + 1,
                                  !.pc = IF sweep.k < Len(sweep.subs)
                                         THEN "notify" ELSE "commit"]
    /\ UNCHANGED <<products, subscriptions, named, req, nreq, last, env>>

StorePrice_AndTitle(product, new_price) ==
    [product EXCEPT !.price = new_price, !.title = NA]

\* line 134: the one column the Sweep assigns
StorePrice(product, new_price) == [product EXCEPT !.price = new_price]

\* lines 134-136: store the new price and commit
SweepCommit ==
    /\ sweep.pc = "commit"
    /\ WriteLockFree(0)
    /\ LET product == ProductById(Current(sweep))
       IN products' = (products \ {product})
                        \cup {StorePrice(product, NewPrice(sweep))}
    /\ sweep' = NextProduct(sweep)
    /\ UNCHANGED <<subscriptions, named, req, nreq, last, outbox, env, notified>>

\* line 135 raises: nothing catches it in check_prices, job or run_scheduler,
\* the scheduler thread ends and the session's change is discarded
SweepCommitFails ==
    /\ sweep.pc = "commit"
    /\ sweep' = [sweep EXCEPT !.pc = "dead"]
    /\ UNCHANGED <<products, subscriptions, named, req, nreq, last, outbox, env, notified>>

\* line 117 raises: the query of the Sweep fails, and nothing catches it
SweepQueryFails ==
    /\ SchedulerWaits(sweep)
    /\ sweep' = [sweep EXCEPT !.pc = "dead"]
    /\ UNCHANGED <<products, subscriptions, named, req, nreq, last, outbox, env, notified>>

\* the Sweep is inside the loop of line 123
Running(sw) == sw.pc \in {"fetch", "compare", "notify", "commit"}

\* lines 150-153: the hour of the job elapses while job() has not returned;
\* the scheduler thread is inside run_pending(), no other thread runs jobs
TickWhileRunning ==
    /\ Running(sweep)
    /\ ~sweep.late
    /\ sweep' = [sweep EXCEPT !.late = TRUE]
    /\ UNCHANGED <<products, subscriptions, named, req, nreq, last, outbox, env, notified>>

\* ------------------------------------------------- deleting a Product
Cascade_None(product) == {}

\* line 33, cascade="all, delete-orphan": the rows deleted with a Product
Cascade(product) == {s \in subscriptions : s.product_id = product.id}

\* session.delete(product) and commit, between requests and sweeps
DeleteProduct ==
    /\ Serving = {}
    /\ sweep.pc = "idle"
    /\ \E product \in products :
          /\ products' = products \ {product}
          /\ subscriptions' = subscriptions \ Cascade(product)
    /\ UNCHANGED <<named, req, nreq, last, sweep, outbox, env, notified>>

\* ------------------------------------------------ starting the service
\* lines 201-209: the service, whose scheduler thread has ended, is started
\* again on the database of the run before (create_all creates only the
\* tables that are missing).  What was committed is there; the sessions and
\* threads of the run before are gone
Restart ==
    /\ sweep.pc = "dead"
    /\ req' = [t \in Threads |-> Idle]
    /\ sweep' = NoSweep
    /\ outbox' = <<>>
    /\ UNCHANGED <<products, subscriptions, named, nreq, last, env, notified>>

\* ------------------------------------------------------ specifications
\* requests served one after another, beside the scheduler thread; the store
\* refuses a commit only for a constraint
Next ==
    \/ TrackBadRequest(1)
    \/ \E t \in Threads : TrackBegin(t, 1)
    \/ \E t \in Threads : TrackFetch(t)
    \/ \E t \in Threads : TrackSub(t)
    \/ \E t \in Threads : TrackCommit(t)
    \/ SweepStart
    \/ SweepFetch
    \/ SweepCompare
    \/ SweepNotify
    \/ SweepCommit

Spec == Init /\ [][Next]_vars

\* the same, and a commit may fail for a reason of the store
NextFault ==
    \/ Next
    \/ \E t \in Threads : TrackCommitFails(t)
    \/ SweepCommitFails
    \/ SweepQueryFails

SpecFault == Init /\ [][NextFault]_vars

\* the same as Spec, and Products are deleted through the ORM
NextCascade ==
    \/ Next
    \/ DeleteProduct

SpecCascade == Init /\ [][NextCascade]_vars

\* the requests served concurrently, one thread for each (the scheduler
\* thread is left out: no step of POST /track reads a price)
NextConc ==
    \/ TrackBadRequest(MaxReq)
    \/ \E t \in Threads : TrackBegin(t, MaxReq)
    \/ \E t \in Threads : TrackFetch(t)
    \/ \E t \in Threads : TrackSub(t)
    \/ \E t \in Threads : TrackCommit(t)

SpecConc == Init /\ [][NextConc]_vars

\* the same as SpecFault, and the service may be stopped and started again
NextRestart ==
    \/ NextFault
    \/ Restart

SpecRestart == Init /\ [][NextRestart]_vars

\* the same as Spec, and the hour may elapse while a Sweep is running
NextTick ==
    \/ Next
    \/ TickWhileRunning

SpecTick == Init /\ [][NextTick]_vars

\* the scheduler thread keeps running: a fetch returns (the transport times
\* out), an SMTP session ends, a commit returns; so does the thread of a
\* request that holds the write lock
SpecLive ==
    /\ Spec
    /\ WF_vars(\E t \in Threads : TrackSub(t))
    /\ WF_vars(\E t \in Threads : TrackCommit(t))
    /\ WF_vars(SweepFetch)
    /\ WF_vars(SweepCompare)
    /\ WF_vars(SweepNotify)
    /\ WF_vars(SweepCommit)

TypeOK ==
    /\ \A p \in products : p.url \in Urls /\ p.title \in Titles \cup {NA}
    /\ \A s \in subscriptions : s.user_email \in Emails
    /\ \A t \in Threads : req[t].pc \in {"idle", "fetch", "sub", "commit"}
    /\ sweep.pc \in {"idle", "fetch", "compare", "notify", "commit", "dead"}
    /\ nreq \in 0..MaxReq

\* ------------------------------------------------------------ claims
\* what a client sees of an answered request
Succeeded(h) == h.status \in {200, 201}

\* the fetch of the request returned a title or a price that is a sentinel
GotSentinel(h) == h.details # None /\ (h.details[1][1] = "N/A" \/ h.details[1][2] = 0)

\* the product of the request could be extracted: its row was there, or the
\* page gave a title and a price
Extractable(h) == h.url # 0 /\ ~GotSentinel(h)

\* the Subscription rows of an email on the Product of a url
RowsForIn(prods, subs, url, email) ==
    {sb \in subs :
        /\ sb.user_email = email
        /\ \E p \in prods : p.id = sb.product_id /\ p.url = url}

RowsFor(url, email) == RowsForIn(products, subscriptions, url, email)

\* the Product rows of a url
ProductsIn(prods, url) == {p \in prods : p.url = url}

ProductsAt(url) == ProductsIn(products, url)

\* the Subscription rows on the Products of a url
RowsOnIn(prods, subs, url) ==
    {sb \in subs : \E p \in ProductsIn(prods, url) : p.id = sb.product_id}

SamePair(g, h) == g.url = h.url /\ g.email = h.email

\* no request has a row flushed or added in its session
NoSession(r) == \A t \in Threads : r[t].newProduct = None /\ r[t].newSub = None

\* this step answers a request; last is the request answered before it
Answered == nreq' = nreq + 1

\* C1: of two requests with the same (product_url, user_email), one after the
\* other, whose product is extractable, both are answered without an error,
\* the first one with 201 when it had to fetch the product and the second
\* one with 200, and exactly one Subscription row is left for the pair.
C1_RetrackIsNoop ==
    [][(Answered /\ SamePair(last, last')
          /\ Extractable(last) /\ Extractable(last'))
         => /\ Succeeded(last)
            /\ (last.details # None => last.status = 201)
            /\ last'.status = 200
            /\ subscriptions' = subscriptions
            /\ Cardinality(RowsForIn(products', subscriptions',
                                     last'.url, last'.email)) = 1]_vars

\* two requests, the second answered 200 on the row of the first
C1_Witness ==
    /\ nreq = 2
    /\ last.status = 200
    /\ Cardinality(RowsFor(last.url, last.email)) = 1
    /\ Cardinality(subscriptions) = 1

\* C2: of two requests for the same product_url with two different emails,
\* one after the other, the second fetches nothing and adds no Product:
\* there is exactly one Product row of the url, and one Subscription row on
\* it for each of the two emails.
C2_OneProductTwoSubscriptions ==
    [][(Answered /\ last.url = last'.url /\ last.email # last'.email
          /\ Extractable(last) /\ Extractable(last'))
         => /\ Succeeded(last) /\ Succeeded(last')
            /\ last'.details = None
            /\ products' = products
            /\ Cardinality(ProductsIn(products', last'.url)) = 1
            /\ Cardinality(RowsForIn(products', subscriptions',
                                     last.url, last.email)) = 1
            /\ Cardinality(RowsForIn(products', subscriptions',
                                     last'.url, last'.email)) = 1]_vars

\* two requests: one Product, two Subscriptions on it
C2_Witness ==
    /\ nreq = 2
    /\ last.status = 201 /\ last.details = None
    /\ Cardinality(ProductsAt(last.url)) = 1
    /\ Cardinality(products) = 1
    /\ Cardinality(RowsOnIn(products, subscriptions, last.url)) = 2

\* C6: a request for a url without a Product whose fetch returns the title
\* "N/A" or the price 0.0 (one of them is enough) is answered 400, and the
\* step that answers it adds no Product row and no Subscription row and
\* leaves nothing in the session.
C6_SentinelRefused ==
    [][(Answered /\ GotSentinel(last'))
         => /\ last'.status = 400
            /\ ProductsAt(last'.url) = {}
            /\ products' = products
            /\ subscriptions' = subscriptions
            /\ NoSession(req')]_vars

\* refused for the title alone, with a price on the page
C6_Witness ==
    /\ last.status = 400 /\ last.details # None
    /\ last.details[1][1] = "N/A" /\ last.details[1][2] > 0
    /\ products = {} /\ subscriptions = {}
    /\ Serving = {}

C10_FailedCommitRolledBack ==
    [][(Answered /\ \E t \in Threads : req[t].pc = "commit")
         => \/ /\ last'.status = 201
               /\ Cardinality(RowsForIn(products', subscriptions',
                                        last'.url, last'.email)) = 1
            \/ /\ last'.status = 500
               /\ products' = products
               /\ subscriptions' = subscriptions
               /\ RowsForIn(products', subscriptions', last'.url, last'.email) = {}
               /\ (last'.details # None => ProductsIn(products', last'.url) = {})
               /\ NoSession(req')]_vars

\* a request that had fetched an unseen url was answered 500: neither row
C10_Witness ==
    /\ last.status = 500
    /\ last.details # None
    /\ ProductsAt(last.url) = {}
    /\ RowsFor(last.url, last.email) = {}
    /\ Serving = {}

\* ---- the Sweep
PriceIn(prods, pid) == (CHOOSE p \in prods : p.id = pid).price

\* the calls of the Notifier for a product in the outbox of the sweep
CallsFor(box, pid) == {i \in 1..Len(box) : box[i].pid = pid}
CallsTo(box, pid, email) == {i \in CallsFor(box, pid) : box[i].to = email}

\* the Subscription rows of a Product
SubscriptionsOn(pid) == {sb \in subscriptions : sb.product_id = pid}

\* the sweep is at a product of its list, and this step ends its turn
AtProduct == sweep.idx # 0
Pid == sweep.products[sweep.idx]
Observed == sweep.seen[sweep.idx]
Leaves == AtProduct /\ sweep'.idx # sweep.idx

\* C3: when a Sweep observes for a Product a new price with
\* 0 < new price < stored price, the Subscriptions it notifies are the rows of
\* that Product, the Notifier is called exactly once for each of them, and
\* the stored price is the new price when the Sweep leaves the Product.
C3_DropNotifiesAndStores ==
    [][/\ (sweep.pc = "compare" /\ sweep' # sweep
             /\ 0 < Observed /\ Observed < PriceIn(products, Pid))
          => /\ sweep'.pc \in {"notify", "commit"}
             /\ Len(sweep'.subs) = Cardinality(SubscriptionsOn(Pid))
             /\ Range(sweep'.subs) = {sb.user_email : sb \in SubscriptionsOn(Pid)}
       /\ (Leaves /\ 0 < Observed /\ Observed < PriceIn(products, Pid))
          => /\ PriceIn(products', Pid) = Observed
             /\ Cardinality(CallsFor(outbox', Pid)) = Len(sweep.subs)
             /\ \A e \in Range(sweep.subs) :
                   Cardinality(CallsTo(outbox', Pid, e)) = 1
             /\ \A i \in CallsFor(outbox', Pid) : outbox'[i].new = Observed]_vars

\* the example of the spec: two subscribers, two calls, the lower price stored
C3_Witness ==
    /\ sweep.pc = "idle"
    /\ \E i \in 1..Len(sweep.products) :
          LET pid == sweep.products[i]
          IN /\ Cardinality(CallsFor(outbox, pid)) = 2
             /\ \E a, b \in CallsFor(outbox, pid) :
                   /\ outbox[a].to # outbox[b].to
                   /\ outbox[a].old = 20 /\ outbox[a].new = 10
             /\ PriceIn(products, pid) = 10
             /\ sweep.seen[i] = 10

\* C4: when a Sweep observes the price 0 for a Product (the fetch or the
\* extraction failed), the steps of the Sweep on that Product leave the
\* stored prices and the Subscriptions as they are and call the Notifier for
\* nobody; the Sweep goes on to the next Product.
C4_ZeroPriceChangesNothing ==
    [][/\ (sweep.pc = "fetch" /\ sweep'.pc = "compare" /\ sweep'.seen[sweep.idx] = 0)
          => (products' = products /\ subscriptions' = subscriptions
                /\ outbox' = outbox)
       /\ (sweep.pc = "compare" /\ sweep' # sweep /\ Observed = 0)
          => (Leaves /\ products' = products /\ subscriptions' = subscriptions
                /\ outbox' = outbox)]_vars

C4_Witness ==
    /\ sweep.pc = "idle"
    /\ \E i \in 1..Len(sweep.products) :
          /\ Len(sweep.seen) >= i
          /\ sweep.seen[i] = 0
          /\ PriceIn(products, sweep.products[i]) > 0
          /\ CallsFor(outbox, sweep.products[i]) = {}
          /\ SubscriptionsOn(sweep.products[i]) # {}

\* C5: when a Sweep observes for a Product a new price that is at least the
\* stored price, the steps of the Sweep on that Product leave the stored
\* prices as they are and call the Notifier for nobody.
C5_NoDropChangesNothing ==
    [][/\ (sweep.pc = "fetch" /\ sweep'.pc = "compare"
             /\ sweep'.seen[sweep.idx] >= PriceIn(products, Pid))
          => (products' = products /\ outbox' = outbox)
       /\ (sweep.pc = "compare" /\ sweep' # sweep
             /\ Observed >= PriceIn(products, Pid))
          => (Leaves /\ products' = products /\ outbox' = outbox)]_vars

C5_Witness ==
    /\ sweep.pc = "idle"
    /\ \E i, j \in 1..Len(sweep.products) :
          /\ Len(sweep.seen) >= i /\ Len(sweep.seen) >= j
          /\ sweep.seen[i] = PriceIn(products, sweep.products[i])
          /\ sweep.seen[j] > PriceIn(products, sweep.products[j])
          /\ PriceIn(products, sweep.products[j]) > 0
          /\ outbox = <<>>

\* the call was made with both credentials and the transport did not deliver
TransportFailed(m) == m.outcome \notin {"sent", "skipped"}

\* C8: a transport failure while one subscriber is emailed does not
\* propagate: the loop goes on with the next subscriber of the Product (or
\* to the commit after the last one), every subscriber of the Product has
\* been attempted when the Sweep leaves the Product, and the new price is
\* stored.
C8_MailFailureIsolated ==
    [][/\ (sweep.pc = "notify" /\ Len(outbox') = Len(outbox) + 1
             /\ TransportFailed(outbox'[Len(outbox')]))
          => /\ sweep'.subs = sweep.subs
             /\ sweep'.k = sweep.k + 1
             /\ sweep'.pc = IF sweep.k < Len(sweep.subs) THEN "notify" ELSE "commit"
       /\ (sweep.pc \in {"notify", "commit"} /\ sweep' # sweep
             /\ \E i \in CallsFor(outbox', Pid) : TransportFailed(outbox'[i]))
          => /\ sweep'.pc # "dead"
             /\ Leaves
                => /\ PriceIn(products', Pid) = Observed
                   /\ \A k \in 1..Len(sweep.subs) :
                         \E i \in CallsFor(outbox', Pid) :
                             outbox'[i].to = sweep.subs[k]]_vars

\* the first subscriber's mail failed, the second was still attempted, and
\* the new price is stored
C8_Witness ==
    \E a, b \in 1..Len(outbox) :
        /\ a < b
        /\ outbox[a].pid = outbox[b].pid
        /\ outbox[a].outcome = "failed"
        /\ outbox[b].outcome = "sent"
        /\ PriceIn(products, outbox[a].pid) = outbox[a].new
        /\ sweep.pc = "idle"

\* C9: a Sweep reads the Products stored when it starts, and once started it
\* comes to its end having fetched every one of them, whatever the fetches
\* return: a Product whose fetch or extraction fails is passed over and the
\* Products after it are still checked.
C9_SweepCompletes ==
    /\ [][(sweep.pc = "idle" /\ sweep' # sweep)
             => Range(sweep'.products) = {p.id : p \in products}]_vars
    /\ (sweep.pc # "idle")
          ~> (sweep.pc = "idle" /\ Len(sweep.seen) = Len(sweep.products))

\* the first of two products failed, the second was still checked
C9_Witness ==
    /\ sweep.pc = "idle"
    /\ Len(sweep.products) = 2
    /\ Len(sweep.seen) = 2
    /\ sweep.seen[1] = 0

\* ---- frame of the prices
\* the step is a step of a POST /track request
TrackStep == req' # req \/ nreq' # nreq

\* C11: a step changes the stored price of a Product only when it is the
\* commit of the Sweep on that Product, and then to the strictly lower
\* price the Sweep observed; no step raises a price, and no step of a track
\* request changes a row of Product that is there: a request for a url that
\* has a Product fetches nothing and leaves the row as it is.
C11_PriceOnlyLowered ==
    [][/\ \A p \in products : \A q \in products' :
             (p.id = q.id /\ q # p)
                => /\ sweep.pc = "commit" /\ Pid = p.id
                   /\ q.price = Observed /\ q.price < p.price
                   /\ q.title = p.title /\ q.url = p.url
       /\ TrackStep => products \subseteq products'
       /\ (Answered /\ ProductsAt(last'.url) # {})
             => (last'.details = None /\ products' = products)]_vars

\* a Sweep lowered the price from 20 to 10, and a request for the url of
\* that Product was then answered 201: the row still has the price 10
C11_Witness ==
    /\ last.status = 201 /\ last.details = None
    /\ \E p \in ProductsAt(last.url) :
          /\ p.price = 10
          /\ \E i \in CallsFor(outbox, p.id) : outbox[i].old = 20
          /\ \A i \in CallsFor(outbox, p.id) : outbox[i].to # last.email

\* C12: in every reachable state every stored Product has a price above 0
\* (neither the 0.0 sentinel nor a negative value) and a title that is not
\* the "N/A" sentinel.
C12_StoredPricesValid ==
    \A p \in products : p.price > 0 /\ p.title # NA

\* ---- the Scheduler
\* the hour of the job elapses in this step, during a Sweep
TickFalls == Running(sweep) /\ sweep'.late /\ ~sweep.late

\* this step takes the scheduler thread to the first Product of a new Sweep
Starts ==
    /\ sweep'.pc = "fetch" /\ sweep'.idx = 1 /\ sweep'.seen = <<>>
    /\ ~(sweep.pc = "fetch" /\ sweep.idx = 1 /\ sweep.seen = <<>>)

\* C13 as stated: when the hour elapses while a Sweep is still running, a
\* second Sweep starts.
C13_TickStartsSecondSweep ==
    [][TickFalls => Starts]_vars

\* C13 as amended: the Sweeps run in the one scheduler thread.  When the
\* hour elapses while a Sweep is running no Sweep starts, the running Sweep
\* stays where it is and goes on; a Sweep starts only when no Sweep is in
\* progress.
C13_OneSweepAtATime ==
    [][/\ TickFalls
          => /\ ~Starts
             /\ sweep' = [sweep EXCEPT !.late = TRUE]
             /\ outbox' = outbox /\ products' = products
       /\ Starts => ~Running(sweep)]_vars

\* the hour elapsed during a Sweep over two Products, and that Sweep came
\* to its end
C13_Witness ==
    /\ sweep.late
    /\ sweep.pc = "idle"
    /\ Len(sweep.products) = 2
    /\ Len(sweep.seen) = 2

\* C14: the loop of the scheduler thread never exits: whatever fails inside
\* a Sweep (a fetch, an extraction, a notification, the query or the commit
\* of the Sweep), the thread is afterwards inside the Sweep or waiting for
\* the next hourly tick, which runs the Sweep again.
C14_SchedulerNeverExits ==
    sweep.pc # "dead"

\* ---- concurrent requests
\* C15: of two requests with the same (product_url, user_email) served
\* concurrently, whose product is extractable, neither is answered with an
\* error, and exactly one Subscription row is left for the pair.
C15_ConcurrentRetrack ==
    [][(Answered /\ SamePair(last, last')
          /\ Extractable(last) /\ Extractable(last'))
         => /\ Succeeded(last) /\ Succeeded(last')
            /\ Cardinality(RowsForIn(products', subscriptions',
                                     last'.url, last'.email)) = 1]_vars

\* C16: of two requests for the same unseen product_url with two different
\* emails served concurrently, whose product is extractable, there is
\* exactly one Product row of the url afterwards and one Subscription row
\* on it for each of the two emails.
C16_ConcurrentFirstTrack ==
    [][(Answered /\ last.url = last'.url /\ last.email # last'.email
          /\ Extractable(last) /\ Extractable(last'))
         => /\ Cardinality(ProductsIn(products', last'.url)) = 1
            /\ Cardinality(RowsForIn(products', subscriptions',
                                     last.url, last.email)) = 1
            /\ Cardinality(RowsForIn(products', subscriptions',
                                     last'.url, last'.email)) = 1]_vars

\* ---- the order of a drop
\* C17: when a Sweep has detected a drop for a Product, it calls the
\* Notifier for the subscribers one after another, in the order it loaded
\* them, while the stored price is still the price before the drop; the
\* new price is stored only when all of them have been called.  Every
\* email of the drop names that old price and the observed new price.
C17_NotifyThenPersist ==
    [][/\ (sweep.pc = "notify" /\ sweep' # sweep)
          => /\ Len(outbox') = Len(outbox) + 1
             /\ outbox'[Len(outbox')].to = sweep.subs[sweep.k]
             /\ outbox'[Len(outbox')].old = PriceIn(products, Pid)
             /\ outbox'[Len(outbox')].new = Observed
             /\ Observed < PriceIn(products, Pid)
             /\ products' = products
       /\ (sweep.pc = "commit" /\ Leaves)
          => /\ sweep.k = Len(sweep.subs) + 1
             /\ outbox' = outbox
             /\ Len(outbox) >= Len(sweep.subs)
             /\ \A k \in 1..Len(sweep.subs) :
                   LET m == outbox[Len(outbox) - Len(sweep.subs) + k]
                   IN /\ m.to = sweep.subs[k] /\ m.pid = Pid
                      /\ m.old = PriceIn(products, Pid)
                      /\ m.new = PriceIn(products', Pid)
             /\ PriceIn(products', Pid) < PriceIn(products, Pid)]_vars

\* the first of two subscribers has been emailed about the drop from 20 to
\* 10, the second not yet, and the stored price is still 20
C17_Witness ==
    /\ sweep.pc = "notify"
    /\ sweep.k = 2 /\ Len(sweep.subs) = 2
    /\ Cardinality(CallsFor(outbox, Pid)) = 1
    /\ \A i \in CallsFor(outbox, Pid) : outbox[i].old = 20 /\ outbox[i].new = 10
    /\ PriceIn(products, Pid) = 20

\* ---- the credentials
\* SENDER_EMAIL or SENDER_PASSWORD is not set (or is empty)
CredentialAbsent == ~env.SENDER_EMAIL \/ ~env.SENDER_PASSWORD

\* C18: when one of the two mail credentials is absent, a call of the
\* Notifier opens no SMTP session and returns to the loop of the Sweep, which
\* goes on; the Sweep that detected the drop has sent no email when it
\* leaves the Product, and the new price is stored.
C18_NoCredentialNoMail ==
    [][/\ (CredentialAbsent /\ sweep.pc = "notify" /\ sweep' # sweep)
          => /\ Len(outbox') = Len(outbox) + 1
             /\ outbox'[Len(outbox')].outcome = "skipped"
             /\ sweep'.k = sweep.k + 1
             /\ sweep'.pc = IF sweep.k < Len(sweep.subs) THEN "notify" ELSE "commit"
       /\ (CredentialAbsent /\ sweep.pc = "commit" /\ Leaves)
          => /\ PriceIn(products', Pid) = Observed
             /\ Cardinality(CallsFor(outbox', Pid)) = Len(sweep.subs)
             /\ \A i \in CallsFor(outbox', Pid) : outbox'[i].outcome = "skipped"]_vars

\* only the password is missing: two subscribers, nothing sent, and the
\* price of the drop is stored
C18_Witness ==
    /\ env.SENDER_EMAIL /\ ~env.SENDER_PASSWORD
    /\ sweep.pc = "idle"
    /\ Len(outbox) = 2
    /\ outbox[1].pid = outbox[2].pid
    /\ outbox[1].outcome = "skipped" /\ outbox[2].outcome = "skipped"
    /\ PriceIn(products, outbox[1].pid) = outbox[1].new
    /\ outbox[1].old > outbox[1].new

\* ---- one email for one price
\* C19: a subscriber is emailed at most once about one observed price of a
\* Product: when a Sweep delivers an email about the price p of a Product to
\* a subscriber, no Sweep before it has delivered one about the same price of
\* that Product to that subscriber, also when the commit of that earlier
\* Sweep failed.
C19_NoSecondEmailForAPrice ==
    [][(sweep.pc = "notify" /\ Len(outbox') = Len(outbox) + 1
          /\ outbox'[Len(outbox')].outcome = "sent")
         => <<outbox'[Len(outbox')].to, outbox'[Len(outbox')].pid,
              outbox'[Len(outbox')].new>> \notin notified]_vars

\* ---- frame of the Sweep
\* a row of Product without its price
Unpriced(prods) == {[id |-> p.id, url |-> p.url, title |-> p.title] : p \in prods}

\* the step is a step of the scheduler thread
SweepStep == sweep' # sweep

\* C20: a step of a Sweep, whatever the fetch returned and whether its
\* commit succeeds or fails, leaves the Subscription rows as they are and
\* the Product rows as they are but for the price: no row is created or
\* deleted, and no id, url, title, user_email or product_id changes.
C20_SweepWritesOnlyPrices ==
    [][SweepStep
         => /\ subscriptions' = subscriptions
            /\ Unpriced(products') = Unpriced(products)
            /\ Cardinality(products') = Cardinality(products)]_vars

\* a Sweep over two Products is at its end: it stored a drop for the first
\* and the fetch of the second failed; both rows and both Subscriptions are
\* there
C20_Witness ==
    /\ sweep.pc = "idle"
    /\ Len(sweep.products) = 2 /\ Len(sweep.seen) = 2
    /\ sweep.seen[1] = 10 /\ sweep.seen[2] = 0
    /\ PriceIn(products, sweep.products[1]) = 10
    /\ CallsFor(outbox, sweep.products[1]) # {}
    /\ Cardinality(products) = 2
    /\ Cardinality(subscriptions) = 2

====
